---- MODULE Spec2Model ----
(***************************************************************************)
(* Huffman compression: compress.py (huffmanTree, traverseTree,            *)
(* compressFile) followed by decompress.py (decompressFile) on the file    *)
(* the compressor wrote.                                                   *)
(*                                                                         *)
(* Characters are represented by their code points, Huffman codes by       *)
(* sequences of the one-character strings "0" and "1" (Python str), bits   *)
(* on the file by the integers 0 and 1.  Tree nodes live in the sequence   *)
(* nodes; a node's index is its object identity and 0 is None.             *)
(***************************************************************************)
EXTENDS Integers, Sequences, FiniteSets, TLC

\* byte values the input files are drawn from (LF, CR and three letters);
\* all are ASCII, which text mode decodes to the same code points
Bytes == {10, 13, 97, 98, 99}
\* longest input file of Spec
MaxLen == 4
\* byte values of the run-structured inputs of SpecRuns
RunBytes == <<97, 98, 99, 100, 101>>
\* longest run of one byte value in an input of SpecRuns
MaxRun == 3

None == 0
NoChar == -1
LF == 10
CR == 13

VARIABLES input, pc, freq, nodes, priorityQueue, root, codeDict, writer,
          hcfile, rpos, totalBytes, uniqueChars, dCodeDict, currentCode,
          bytesWritten, outfile

vars == <<input, pc, freq, nodes, priorityQueue, root, codeDict, writer,
          hcfile, rpos, totalBytes, uniqueChars, dCodeDict, currentCode,
          bytesWritten, outfile>>

compressVars == <<freq, nodes, priorityQueue, root, codeDict, writer, hcfile>>
decompressVars == <<rpos, totalBytes, uniqueChars, dCodeDict, currentCode,
                    bytesWritten, outfile>>

----------------------------------------------------------------------------
(* Python dict: insertion-ordered sequence of <<key, value>> pairs *)

DictHas(d, k) == \E i \in 1..Len(d) : d[i][1] = k

DictIndex(d, k) == CHOOSE i \in 1..Len(d) : d[i][1] = k

DictGet(d, k) == d[DictIndex(d, k)][2]

DictSet(d, k, v) ==
    IF DictHas(d, k) THEN [d EXCEPT ![DictIndex(d, k)] = <<k, v>>]
    ELSE Append(d, <<k, v>>)

RECURSIVE SumValues(_)
SumValues(d) == IF d = <<>> THEN 0 ELSE d[1][2] + SumValues(Tail(d))

----------------------------------------------------------------------------
(* text-mode file I/O *)

\* open(name, "r"): universal newlines, "\r\n" and a lone "\r" are read as "\n"
RECURSIVE ReadText(_)
ReadText(b) ==
    IF b = <<>> THEN <<>>
    ELSE IF b[1] = CR
         THEN IF Len(b) >= 2 /\ b[2] = LF
              THEN <<LF>> \o ReadText(SubSeq(b, 3, Len(b)))
              ELSE <<LF>> \o ReadText(Tail(b))
         ELSE <<b[1]>> \o ReadText(Tail(b))

\* the line separator open(name, "w") writes for "\n" (POSIX)
linesep == <<LF>>

\* open(name, "w"): every "\n" written becomes the line separator
RECURSIVE WriteText(_)
WriteText(s) ==
    IF s = <<>> THEN <<>>
    ELSE (IF s[1] = LF THEN linesep ELSE <<s[1]>>) \o WriteText(Tail(s))

----------------------------------------------------------------------------
(* BinaryFileIO: bit-level writer and reader *)

RECURSIVE ToBits(_, _)
ToBits(v, w) == IF w = 0 THEN <<>> ELSE ToBits(v \div 2, w - 1) \o <<v % 2>>

RECURSIVE FromBits(_)
FromBits(b) ==
    IF b = <<>> THEN 0 ELSE 2 * FromBits(SubSeq(b, 1, Len(b) - 1)) + b[Len(b)]

writeUInt(v) == ToBits(v, 32)
writeUShort(v) == ToBits(v, 16)
writeUByte(v) == ToBits(v, 8)

\* close(): flush, the last partial byte padded with zero bits
closeWriter(w) == w \o [i \in 1..((8 - (Len(w) % 8)) % 8) |-> 0]

readUInt(f, pos) == FromBits(SubSeq(f, pos + 1, pos + 32))
readUShort(f, pos) == FromBits(SubSeq(f, pos + 1, pos + 16))
readUByte(f, pos) == FromBits(SubSeq(f, pos + 1, pos + 8))

----------------------------------------------------------------------------
(* compress.py *)

\* __lt__ with the comparison the wrong way round
NodeGt(a, b, ns) == ns[a].freq > ns[b].freq

\* huffmanNode.__lt__
NodeLt(a, b, ns) == ns[a].freq < ns[b].freq

\* the frequency dictionary of a text, keys in order of first occurrence
RECURSIVE CountFreq(_, _)
CountFreq(text, d) ==
    IF text = <<>> THEN d
    ELSE CountFreq(Tail(text),
                   IF DictHas(d, text[1])
                   THEN DictSet(d, text[1], DictGet(d, text[1]) + 1)
                   ELSE DictSet(d, text[1], 1))

\* list.sort(): stable, ordered by __lt__ only
RECURSIVE InsertStable(_, _, _)
InsertStable(s, x, ns) ==
    IF s = <<>> THEN <<x>>
    ELSE IF NodeLt(x, s[1], ns) THEN <<x>> \o s
    ELSE <<s[1]>> \o InsertStable(Tail(s), x, ns)

RECURSIVE SortList(_, _)
SortList(q, ns) ==
    IF q = <<>> THEN <<>>
    ELSE InsertStable(SortList(SubSeq(q, 1, Len(q) - 1), ns), q[Len(q)], ns)

\* one leaf per entry of the frequency dictionary, in dictionary order
LeafNodes(d) ==
    [i \in 1..Len(d) |->
        [char |-> d[i][1], freq |-> d[i][2], left |-> None, right |-> None]]

\* the merged node appended instead of inserted at the front
ReinsertAppend(rest, node, ns) == SortList(Append(rest, node), ns)

\* the merged node inserted and the queue not sorted again
ReinsertNoSort(rest, node, ns) == <<node>> \o rest

\* priorityQueue.insert(0, node); priorityQueue.sort()
Reinsert(rest, node, ns) == SortList(<<node>> \o rest, ns)

\* traverseTree descending right with "0" as well
RECURSIVE traverseTreeSameBit(_, _, _)
traverseTreeSameBit(node, code, cd) ==
    IF nodes[node].left = None /\ nodes[node].right = None
    THEN DictSet(cd, nodes[node].char, IF code = <<>> THEN <<"0">> ELSE code)
    ELSE traverseTreeSameBit(nodes[node].right, code \o <<"0">>,
                             traverseTreeSameBit(nodes[node].left, code \o <<"0">>, cd))

\* traverseTree without the single-character edge case
RECURSIVE traverseTreeNoEdgeCase(_, _, _)
traverseTreeNoEdgeCase(node, code, cd) ==
    IF nodes[node].left = None /\ nodes[node].right = None
    THEN DictSet(cd, nodes[node].char, code)
    ELSE traverseTreeNoEdgeCase(nodes[node].right, code \o <<"1">>,
                                traverseTreeNoEdgeCase(nodes[node].left, code \o <<"0">>, cd))

\* traverseTree(node, code, codeDict): the dictionary after the call
RECURSIVE traverseTree(_, _, _)
traverseTree(node, code, cd) ==
    IF nodes[node].left = None /\ nodes[node].right = None
    THEN DictSet(cd, nodes[node].char, IF code = <<>> THEN <<"0">> ELSE code)
    ELSE traverseTree(nodes[node].right, code \o <<"1">>,
                      traverseTree(nodes[node].left, code \o <<"0">>, cd))

\* the two branches of the bit test exchanged
CodeBitsSwapped(code) == [i \in 1..Len(code) |-> IF code[i] = "0" THEN 1 ELSE 0]

\* for bit in code: writeBit(0) if bit == "0" else writeBit(1)
CodeBits(code) == [i \in 1..Len(code) |-> IF code[i] = "0" THEN 0 ELSE 1]

RECURSIVE HeaderEntries(_)
HeaderEntries(cd) ==
    IF cd = <<>> THEN <<>>
    ELSE writeUByte(cd[1][1]) \o writeUByte(Len(cd[1][2]))
         \o CodeBits(cd[1][2]) \o HeaderEntries(Tail(cd))

Header(d, cd) ==
    writeUInt(SumValues(d)) \o writeUShort(Len(d)) \o HeaderEntries(cd)

RECURSIVE Payload(_, _)
Payload(text, cd) ==
    IF text = <<>> THEN <<>>
    ELSE CodeBits(DictGet(cd, text[1])) \o Payload(Tail(text), cd)

----------------------------------------------------------------------------
(* decompress.py *)

\* the bit read turned into the other character
BitStrSwapped(b) == IF b = 0 THEN "1" ELSE "0"

\* str(bit)
BitStr(b) == IF b = 0 THEN "0" ELSE "1"

\* the header loop: <<codeDict, reader position>> after n more entries
RECURSIVE ReadEntries(_, _, _, _)
ReadEntries(f, pos, n, cd) ==
    IF n = 0 THEN <<cd, pos>>
    ELSE LET charValue == readUByte(f, pos)
             codeLength == readUByte(f, pos + 8)
             code == [i \in 1..codeLength |-> BitStr(f[pos + 16 + i])]
         IN ReadEntries(f, pos + 16 + codeLength, n - 1,
                        DictSet(cd, code, charValue))

\* the loop test off by one
MoreToDecodeLe(written, total) == written <= total

\* while bytesWritten < totalBytes
MoreToDecode(written, total) == written < total

----------------------------------------------------------------------------
(* inputs *)

RECURSIVE SeqsUpTo(_, _)
SeqsUpTo(S, n) ==
    IF n = 0 THEN {<<>>}
    ELSE LET shorter == SeqsUpTo(S, n - 1)
         IN shorter \cup {Append(s, x) : s \in shorter, x \in S}

Inputs == SeqsUpTo(Bytes, MaxLen)

\* RunBytes[1] k[1] times, then RunBytes[2] k[2] times, ...
RECURSIVE Runs(_, _)
Runs(k, i) ==
    IF i > Len(RunBytes) THEN <<>>
    ELSE [j \in 1..k[i] |-> RunBytes[i]] \o Runs(k, i + 1)

RunInputs == {Runs(k, 1) : k \in [1..Len(RunBytes) -> 0..MaxRun]}

InitWith(x) ==
    /\ input = x
    /\ pc = "count"
    /\ freq = <<>>
    /\ nodes = <<>>
    /\ priorityQueue = <<>>
    /\ root = None
    /\ codeDict = <<>>
    /\ writer = <<>>
    /\ hcfile = <<>>
    /\ rpos = 0
    /\ totalBytes = 0
    /\ uniqueChars = 0
    /\ dCodeDict = <<>>
    /\ currentCode = <<>>
    /\ bytesWritten = 0
    /\ outfile = <<>>

Init == \E x \in Inputs : InitWith(x)

InitRuns == \E x \in RunInputs : InitWith(x)

----------------------------------------------------------------------------
(* huffmanTree *)

BuildFrequency ==
    /\ pc = "count"
    /\ freq' = CountFreq(ReadText(input), <<>>)
    /\ pc' = "queue"
    /\ UNCHANGED <<input, nodes, priorityQueue, root, codeDict, writer, hcfile>>
    /\ UNCHANGED decompressVars

BuildQueue ==
    /\ pc = "queue"
    /\ nodes' = LeafNodes(freq)
    /\ priorityQueue' = SortList([i \in 1..Len(freq) |-> i], nodes')
    /\ pc' = "merge"
    /\ UNCHANGED <<input, freq, root, codeDict, writer, hcfile>>
    /\ UNCHANGED decompressVars

\* one iteration of the while loop
MergeStep ==
    /\ pc = "merge"
    /\ Len(priorityQueue) >= 2
    /\ LET left == priorityQueue[1]
           right == priorityQueue[2]
           total == nodes[left].freq + nodes[right].freq
           node == Len(nodes) + 1
       IN /\ nodes' = Append(nodes, [char |-> NoChar, freq |-> total,
                                     left |-> left, right |-> right])
          /\ priorityQueue' =
                Reinsert(SubSeq(priorityQueue, 3, Len(priorityQueue)), node, nodes')
    /\ UNCHANGED <<input, pc, freq, root, codeDict, writer, hcfile>>
    /\ UNCHANGED decompressVars

\* the while loop entered with an empty queue: pop(0) raises IndexError
MergeEmpty ==
    /\ pc = "merge"
    /\ Len(priorityQueue) = 0
    /\ pc' = "crashed"
    /\ UNCHANGED <<input, freq, nodes, priorityQueue, root, codeDict, writer, hcfile>>
    /\ UNCHANGED decompressVars

ReturnRoot ==
    /\ pc = "merge"
    /\ Len(priorityQueue) = 1
    /\ root' = priorityQueue[1]
    /\ pc' = "traverse"
    /\ UNCHANGED <<input, freq, nodes, priorityQueue, codeDict, writer, hcfile>>
    /\ UNCHANGED decompressVars

----------------------------------------------------------------------------
(* compressFile *)

BuildCodeDict ==
    /\ pc = "traverse"
    /\ codeDict' = traverseTree(root, <<>>, <<>>)
    /\ pc' = "header"
    /\ UNCHANGED <<input, freq, nodes, priorityQueue, root, writer, hcfile>>
    /\ UNCHANGED decompressVars

WriteHeader ==
    /\ pc = "header"
    /\ writer' = Header(freq, codeDict)
    /\ pc' = "payload"
    /\ UNCHANGED <<input, freq, nodes, priorityQueue, root, codeDict, hcfile>>
    /\ UNCHANGED decompressVars

WritePayload ==
    /\ pc = "payload"
    /\ writer' = writer \o Payload(ReadText(input), codeDict)
    /\ hcfile' = closeWriter(writer')
    /\ pc' = "readHeader"
    /\ UNCHANGED <<input, freq, nodes, priorityQueue, root, codeDict>>
    /\ UNCHANGED decompressVars

----------------------------------------------------------------------------
(* decompressFile *)

ReadHeader ==
    /\ pc = "readHeader"
    /\ totalBytes' = readUInt(hcfile, 0)
    /\ uniqueChars' = readUShort(hcfile, 32)
    /\ LET r == ReadEntries(hcfile, 48, uniqueChars', <<>>)
       IN /\ dCodeDict' = r[1]
          /\ rpos' = r[2]
    /\ pc' = "decode"
    /\ UNCHANGED <<input, currentCode, bytesWritten, outfile>>
    /\ UNCHANGED compressVars

\* one iteration of the decoding loop; readBit() at the end of the file
\* fails
DecodeBit ==
    /\ pc = "decode"
    /\ MoreToDecode(bytesWritten, totalBytes)
    /\ IF rpos >= Len(hcfile)
       THEN /\ pc' = "crashed"
            /\ UNCHANGED <<rpos, currentCode, bytesWritten, outfile>>
       ELSE LET bit == hcfile[rpos + 1]
                cur == Append(currentCode, BitStr(bit))
            IN /\ rpos' = rpos + 1
               /\ pc' = pc
               /\ IF DictHas(dCodeDict, cur)
                  THEN /\ outfile' = Append(outfile, DictGet(dCodeDict, cur))
                       /\ bytesWritten' = bytesWritten + 1
                       /\ currentCode' = <<>>
                  ELSE /\ currentCode' = cur
                       /\ UNCHANGED <<bytesWritten, outfile>>
    /\ UNCHANGED <<input, totalBytes, uniqueChars, dCodeDict>>
    /\ UNCHANGED compressVars

DecodeDone ==
    /\ pc = "decode"
    /\ ~MoreToDecode(bytesWritten, totalBytes)
    /\ pc' = "done"
    /\ UNCHANGED <<input>>
    /\ UNCHANGED decompressVars
    /\ UNCHANGED compressVars

----------------------------------------------------------------------------

Next ==
    \/ BuildFrequency
    \/ BuildQueue
    \/ MergeStep
    \/ MergeEmpty
    \/ ReturnRoot
    \/ BuildCodeDict
    \/ WriteHeader
    \/ WritePayload
    \/ ReadHeader
    \/ DecodeBit
    \/ DecodeDone

Spec == Init /\ [][Next]_vars

SpecRuns == InitRuns /\ [][Next]_vars

TypeOK ==
    /\ pc \in {"count", "queue", "merge", "traverse", "header", "payload",
               "readHeader", "decode", "done", "crashed"}
    /\ rpos \in Nat
    /\ bytesWritten \in Nat

----------------------------------------------------------------------------
(* definitions shared by the properties *)

\* the characters the compressor iterates over
text == ReadText(input)

IsPrefix(a, b) == Len(a) <= Len(b) /\ SubSeq(b, 1, Len(a)) = a

AfterQueue == pc \notin {"count", "queue", "crashed"}
AfterTree == AfterQueue /\ pc # "merge"
AfterTraverse == AfterTree /\ pc # "traverse"
AfterHeader == AfterTraverse /\ pc # "header"
AfterPayload == AfterHeader /\ pc # "payload"
AfterReadHeader == pc \in {"decode", "done"}

RECURSIVE CodeLenSum(_, _)
CodeLenSum(s, cd) ==
    IF s = <<>> THEN 0 ELSE Len(DictGet(cd, s[1])) + CodeLenSum(Tail(s), cd)

RECURSIVE HeaderLen(_)
HeaderLen(cd) ==
    IF cd = <<>> THEN 48 ELSE 16 + Len(cd[1][2]) + HeaderLen(Tail(cd))

----------------------------------------------------------------------------
\* C1: round trip - whenever decompression of the compressed file has
\* finished, the bytes of the decompressed file are exactly the bytes of the
\* input file, in the same order.
RoundTrip == pc = "done" => WriteText(outfile) = input

\* C2: empty input - compressing the empty file does not fail, the header
\* written is totalSymbolCount 0 and uniqueSymbolCount 0 with no entry and no
\* payload bit, and decompressing that file gives the empty output.
EmptyInput ==
    input = <<>> =>
        /\ pc # "crashed"
        /\ AfterHeader => writer = writeUInt(0) \o writeUShort(0)
        /\ pc = "done" => outfile = <<>>

\* C3: prefix-free - in the code table built by traverseTree no code of one
\* symbol is a prefix of, or equal to, the code of another symbol.
PrefixFree ==
    AfterTraverse =>
        \A i, j \in 1..Len(codeDict) :
            i # j => ~IsPrefix(codeDict[i][2], codeDict[j][2])

PrefixFreeWitness ==
    /\ pc = "header"
    /\ Len(codeDict) = 5
    /\ \E i, j \in 1..5 : Len(codeDict[i][2]) = 1 /\ Len(codeDict[j][2]) = 3

\* C4 as claimed: for the input a,a,a,b the file holds totalSymbolCount 4,
\* uniqueSymbolCount 2, the entries (a, 1, "0") then (b, 1, "1") and the
\* payload bits 0001.
ScenarioAClaimed ==
    (input = <<97, 97, 97, 98>> /\ AfterPayload) =>
        writer = writeUInt(4) \o writeUShort(2)
                 \o writeUByte(97) \o writeUByte(1) \o <<0>>
                 \o writeUByte(98) \o writeUByte(1) \o <<1>>
                 \o <<0, 0, 0, 1>>

\* C4 amended: for the input a,a,a,b the file holds totalSymbolCount 4,
\* uniqueSymbolCount 2, the entries (b, 1, "0") then (a, 1, "1") in that
\* order and the payload bits 1110.
ScenarioA ==
    input = <<97, 97, 97, 98>> =>
        /\ AfterTraverse => codeDict = << <<98, <<"0">>>>, <<97, <<"1">>>> >>
        /\ AfterPayload =>
              writer = writeUInt(4) \o writeUShort(2)
                       \o writeUByte(98) \o writeUByte(1) \o <<0>>
                       \o writeUByte(97) \o writeUByte(1) \o <<1>>
                       \o <<1, 1, 1, 0>>

ScenarioAWitness == input = <<97, 97, 97, 98>> /\ pc = "readHeader"

HeaderRoundTrip ==
    (AfterReadHeader /\ freq # <<>>) =>
        /\ uniqueChars = Len(freq)
        /\ Len(dCodeDict) = uniqueChars
        /\ Len(codeDict) = uniqueChars
        /\ \A i \in 1..Len(dCodeDict) :
              dCodeDict[i] = <<codeDict[i][2], codeDict[i][1]>>
        /\ {dCodeDict[i][2] : i \in 1..Len(dCodeDict)}
              = {freq[i][1] : i \in 1..Len(freq)}
        /\ totalBytes = SumValues(freq)
        /\ totalBytes = Len(text)
        /\ pc = "decode" /\ bytesWritten = 0 /\ currentCode = <<>>
              => rpos = HeaderLen(codeDict)

HeaderRoundTripWitness ==
    /\ pc = "decode"
    /\ Len(dCodeDict) >= 3
    /\ \E i \in 1..Len(dCodeDict) : Len(dCodeDict[i][1]) >= 2

\* C7: decoder stop condition - the decoder emits a symbol exactly when the
\* candidate buffer equals a code and then resets the buffer, stops exactly
\* when the emitted count reaches totalSymbolCount, and has then read
\* exactly the header bits plus the code bits of the symbols, so that it
\* never reads a padding bit and emits nothing from padding.
DecoderStops ==
    AfterReadHeader =>
        /\ rpos <= Len(writer)
        /\ bytesWritten = Len(outfile)
        /\ bytesWritten <= totalBytes
        /\ outfile = SubSeq(text, 1, bytesWritten)
        /\ ~DictHas(dCodeDict, currentCode)
        /\ rpos = HeaderLen(codeDict) + CodeLenSum(outfile, codeDict)
                  + Len(currentCode)
        /\ (pc = "decode" /\ bytesWritten = totalBytes) => ~ENABLED DecodeBit
        /\ (pc = "decode" /\ bytesWritten < totalBytes) => ~ENABLED DecodeDone
        /\ pc = "done" =>
              /\ bytesWritten = totalBytes
              /\ currentCode = <<>>
              /\ rpos = HeaderLen(codeDict) + CodeLenSum(text, codeDict)

DecoderStopsWitness ==
    /\ pc = "done"
    /\ Len(hcfile) > Len(writer)
    /\ bytesWritten >= 3
    /\ Len(dCodeDict) >= 2

----------------------------------------------------------------------------
(* tree builder *)

Weight(n) == nodes[n].freq

\* the queue is in ascending weight order
Ascending(q, ns) ==
    \A i, j \in 1..Len(q) : i < j => ns[q[i]].freq <= ns[q[j]].freq

\* s with x put at position k + 1
InsertAt(s, k, x) == SubSeq(s, 1, k) \o <<x>> \o SubSeq(s, k + 1, Len(s))

\* the first sort orders the leaves by weight, equal weights in the order of
\* the frequency dictionary
LeavesInOrder ==
    pc = "queue" /\ pc' = "merge" =>
        /\ Ascending(priorityQueue', nodes')
        /\ \A i, j \in 1..Len(priorityQueue') :
              (i < j /\ nodes'[priorityQueue'[i]].freq
                          = nodes'[priorityQueue'[j]].freq)
                  => priorityQueue'[i] < priorityQueue'[j]

\* a merge takes the two nodes of lowest weight and leaves the others in
\* their order, the merged node behind the k of them that it follows
MergeInserts(k) ==
    LET left == priorityQueue[1]
        right == priorityQueue[2]
        rest == SubSeq(priorityQueue, 3, Len(priorityQueue))
        node == Len(nodes')
    IN /\ Weight(left) <= Weight(right)
       /\ \A i \in 1..Len(rest) : Weight(right) <= Weight(rest[i])
       /\ nodes'[node] = [char |-> NoChar, freq |-> Weight(left) + Weight(right),
                          left |-> left, right |-> right]
       /\ Ascending(priorityQueue', nodes')
       /\ priorityQueue' = InsertAt(rest, k, node)

IsMerge == pc = "merge" /\ Len(nodes') = Len(nodes) + 1

\* the nodes left in the queue that weigh less than the merged node
Lighter ==
    Cardinality({i \in 3..Len(priorityQueue) :
        Weight(priorityQueue[i]) < Weight(priorityQueue[1]) + Weight(priorityQueue[2])})

\* the nodes left in the queue that weigh no more than the merged node
NotHeavier ==
    Cardinality({i \in 3..Len(priorityQueue) :
        Weight(priorityQueue[i]) <= Weight(priorityQueue[1]) + Weight(priorityQueue[2])})

\* C8 as claimed: every merge removes the two lowest-weight nodes and leaves
\* the queue in ascending weight order, nodes of equal weight in the order
\* they entered the queue, the merged node after the nodes of its weight
\* that were already there.
TieBreakClaimed ==
    [][LeavesInOrder /\ (IsMerge => MergeInserts(NotHeavier))]_vars

\* C8 amended: every merge removes the two lowest-weight nodes and leaves
\* the queue in ascending weight order, the nodes already there in their
\* previous relative order and the merged node before the nodes of its
\* weight that were already there.
TieBreak ==
    [][LeavesInOrder /\ (IsMerge => MergeInserts(Lighter))]_vars

\* a merged node sits in the queue next to an older node of its weight
TieBreakWitness ==
    /\ pc = "merge"
    /\ Len(nodes) > Len(freq)
    /\ \E i \in 1..Len(priorityQueue) :
          /\ priorityQueue[i] = Len(nodes)
          /\ \E j \in 1..Len(priorityQueue) :
                j # i /\ Weight(priorityQueue[j]) = Weight(priorityQueue[i])

----------------------------------------------------------------------------
(* code lengths *)

Max(a, b) == IF a >= b THEN a ELSE b

\* C9: code length fits the 8-bit field - with n distinct symbols every code
\* of the table is non-empty and at most max(1, n - 1) long, so between 1
\* and 255, and the codeLength byte written for it reads back as its length.
CodeLengthFits ==
    (AfterTraverse /\ Len(freq) >= 1 /\ Len(freq) <= 256) =>
        /\ Len(codeDict) = Len(freq)
        /\ \A i \in 1..Len(codeDict) :
              LET codeLength == Len(codeDict[i][2])
              IN /\ codeLength >= 1
                 /\ codeLength <= Max(1, Len(freq) - 1)
                 /\ codeLength <= 255
                 /\ FromBits(writeUByte(codeLength)) = codeLength

CodeLengthFitsWitness ==
    /\ pc = "header"
    /\ Len(freq) = 5
    /\ \E i \in 1..Len(codeDict) : Len(codeDict[i][2]) = Len(freq) - 1

RECURSIVE Pow2(_)
Pow2(n) == IF n = 0 THEN 1 ELSE 2 * Pow2(n - 1)

RECURSIVE SumTo(_, _)
SumTo(f, n) == IF n = 0 THEN 0 ELSE f[n] + SumTo(f, n - 1)

\* the code lengths, at most L, of the prefix-free binary codes for n symbols
\* (the lengths for which Kraft's inequality holds)
PrefixCodeLengths(n, L) ==
    {l \in [1..n -> 1..L] :
        SumTo([i \in 1..n |-> Pow2(L - l[i])], n) <= Pow2(L)}

\* the payload length of a code with lengths l for the frequency table
Cost(l) == SumTo([i \in 1..Len(freq) |-> freq[i][2] * l[i]], Len(freq))

\* the lengths of the codes of the code table, in frequency-table order
TableLengths == [i \in 1..Len(freq) |-> Len(DictGet(codeDict, freq[i][1]))]

\* C10: optimality - for a table of at least two symbols the payload length
\* of the code table is minimal among the prefix-free binary codes for the
\* symbols.
Optimal ==
    (pc = "header" /\ Len(freq) >= 2) =>
        \A l \in PrefixCodeLengths(Len(freq), Len(freq)) :
            Cost(TableLengths) <= Cost(l)

OptimalWitness ==
    /\ pc = "header"
    /\ Len(freq) = 4
    /\ freq[1][2] = freq[2][2]
    /\ freq[3][2] = 2 * freq[1][2]
    /\ TableLengths[4] = 1
    /\ TableLengths[1] = 3
    /\ \E l \in PrefixCodeLengths(4, 4) : Cost(l) > Cost(TableLengths)

====
